---- MODULE Spec2Model ----
(***************************************************************************)
(* The sliding-tile ("gem") puzzle solver of gem-puzzle.ipynb: the state / *)
(* action model, the two heuristics, init_puzzle's random walk and the A*  *)
(* loop of GemPuzzleSolver.solve with its heapq frontier.                  *)
(*                                                                         *)
(* A board (np.ndarray of shape (N, N)) is a function                      *)
(* [0..N-1 -> [0..N-1 -> Int]], indexed from 0 as in the source.  A hash   *)
(* key (state_to_tuple) is a sequence of N*N labels.  Optional[x] is a     *)
(* sequence of length at most one: None == <<>>, a present x is <<x>>.     *)
(* Node objects live in the arena `nodes`; a reference to a Node is its    *)
(* index there, and a `parent` of 0 is None.                               *)
(***************************************************************************)
EXTENDS Integers, Sequences, FiniteSets, TLC

VARIABLES
    state,            \* init_puzzle: the board being randomized
    r,                \* init_puzzle: loop counter of the randomizing walk
    initial_state,    \* GemPuzzleSolver.initial_state
    goal_state,       \* GemPuzzleSolver.goal_state
    heuristic_func,   \* GemPuzzleSolver.heuristic_func: "manhattan_distance" | "enhanced_manhattan"
    states_evaluated, \* GemPuzzleSolver.states_evaluated
    nodes,            \* every Node created by solve, in creation order
    open_set,         \* solve: the heapq list of Node references
    g_scores,         \* solve: the finite entries of the defaultdict
    closed_set,       \* solve: set of keys
    current,          \* solve: the Node popped last (0 before the first pop)
    pc,               \* "walk" | "start" | "loop" | "done"
    result            \* solve's return value once pc = "done"

vars == <<state, r, initial_state, goal_state, heuristic_func, states_evaluated,
          nodes, open_set, g_scores, closed_set, current, pc, result>>

walkVars == <<state, r>>
solveVars == <<initial_state, goal_state, heuristic_func, states_evaluated,
               nodes, open_set, g_scores, closed_set, current, result>>

-----------------------------------------------------------------------------
(* Bounds *)

\* init_puzzle takes RANDOMIZE_STEPS = 100000 steps; the walk is cut here.
MaxSteps == 14

\* The solver is started from every 3x3 board at most MaxWalk moves from the goal.
MaxWalk == 6

\* Board dimensions the notebook and its README run (2x2, 3x3).
Dims == {2, 3}

None == <<>>
Some(x) == <<x>>

-----------------------------------------------------------------------------
(* Boards *)

Action(pos1, pos2) == [pos1 |-> pos1, pos2 |-> pos2]

\* np.array(list).reshape((N, N)): row-major.
reshape(t, N) == [i \in 0..(N - 1) |-> [j \in 0..(N - 1) |-> t[i * N + j + 1]]]

\* np.array([i for i in range(1, puzzle_dim**2)] + [0]).reshape(...)
GoalBoard(N) == reshape([k \in 1..(N * N) |-> IF k < N * N THEN k ELSE 0], N)

\* state.shape[0]
shape0(board) == Cardinality(DOMAIN board)

\* state[p] for a coordinate pair p
At(board, p) == board[p[1]][p[2]]

\* The first coordinate, in row-major order, np.where(board == v) lists.
where(board, v) ==
    LET N == shape0(board)
        k == CHOOSE k \in 0..(N * N - 1) :
                /\ board[k \div N][k % N] = v
                /\ \A m \in 0..(k - 1) : board[m \div N][m % N] # v
    IN  <<k \div N, k % N>>

\* available_actions with "if y > 1" for the move to the left
available_actions_left_from_2(board) ==
    LET p == where(board, 0)
        x == p[1]
        y == p[2]
        puzzle_dim == shape0(board)
    IN  (IF x > 0 THEN <<Action(<<x, y>>, <<x - 1, y>>)>> ELSE <<>>)
        \o (IF x < puzzle_dim - 1 THEN <<Action(<<x, y>>, <<x + 1, y>>)>> ELSE <<>>)
        \o (IF y > 1 THEN <<Action(<<x, y>>, <<x, y - 1>>)>> ELSE <<>>)
        \o (IF y < puzzle_dim - 1 THEN <<Action(<<x, y>>, <<x, y + 1>>)>> ELSE <<>>)

available_actions(board) ==
    LET p == where(board, 0)
        x == p[1]
        y == p[2]
        puzzle_dim == shape0(board)
    IN  (IF x > 0 THEN <<Action(<<x, y>>, <<x - 1, y>>)>> ELSE <<>>)
        \o (IF x < puzzle_dim - 1 THEN <<Action(<<x, y>>, <<x + 1, y>>)>> ELSE <<>>)
        \o (IF y > 0 THEN <<Action(<<x, y>>, <<x, y - 1>>)>> ELSE <<>>)
        \o (IF y < puzzle_dim - 1 THEN <<Action(<<x, y>>, <<x, y + 1>>)>> ELSE <<>>)

\* new_state[p] = v on a copy
SetAt(board, p, v) == [board EXCEPT ![p[1]][p[2]] = v]

\* do_action with two plain assignments in place of the tuple swap:
\* new_state[pos1] = new_state[pos2]; new_state[pos2] = new_state[pos1]
do_action_overwrite(board, action) ==
    LET v2 == At(board, action.pos2)
    IN  SetAt(SetAt(board, action.pos1, v2), action.pos2, v2)

do_action(board, action) ==
    LET v1 == At(board, action.pos1)
        v2 == At(board, action.pos2)
    IN  SetAt(SetAt(board, action.pos1, v2), action.pos2, v1)

-----------------------------------------------------------------------------
(* Heuristics *)

Abs(n) == IF n < 0 THEN -n ELSE n

RECURSIVE SumTo(_, _)
\* sum of f[0] .. f[n-1]
SumTo(f, n) == IF n = 0 THEN 0 ELSE f[n - 1] + SumTo(f, n - 1)

\* manhattan_distance without its "if state[i, j] != 0": the blank is counted
manhattan_with_blank(board, goal) ==
    LET puzzle_dim == shape0(board)
        dist == [k \in 0..(puzzle_dim * puzzle_dim - 1) |->
                    LET i == k \div puzzle_dim
                        j == k % puzzle_dim
                        goal_pos == where(goal, board[i][j])
                    IN  Abs(i - goal_pos[1]) + Abs(j - goal_pos[2])]
    IN  SumTo(dist, puzzle_dim * puzzle_dim)

manhattan_distance(board, goal) ==
    LET puzzle_dim == shape0(board)
        dist == [k \in 0..(puzzle_dim * puzzle_dim - 1) |->
                    LET i == k \div puzzle_dim
                        j == k % puzzle_dim
                    IN  IF board[i][j] # 0
                        THEN LET goal_pos == where(goal, board[i][j])
                             IN  Abs(i - goal_pos[1]) + Abs(j - goal_pos[2])
                        ELSE 0]
    IN  SumTo(dist, puzzle_dim * puzzle_dim)

\* line2 index of the first occurrence of v: np.where(line2 == v)[0][0]
where1(line, v) ==
    CHOOSE k \in DOMAIN line : line[k] = v /\ \A m \in DOMAIN line : m < k => line[m] # v

\* count_conflicts with "conflicts += 1"
count_conflicts_by_one(line1, line2) ==
    LET n == Cardinality(DOMAIN line1)
        reversed == {p \in (0..(n - 1)) \X (0..(n - 1)) :
                        /\ p[1] < p[2]
                        /\ line1[p[1]] # 0
                        /\ line1[p[2]] # 0
                        /\ \E k \in DOMAIN line2 : line2[k] = line1[p[1]]
                        /\ \E k \in DOMAIN line2 : line2[k] = line1[p[2]]
                        /\ where1(line2, line1[p[1]]) > where1(line2, line1[p[2]])}
    IN  Cardinality(reversed)

count_conflicts(line1, line2) ==
    LET n == Cardinality(DOMAIN line1)
        reversed == {p \in (0..(n - 1)) \X (0..(n - 1)) :
                        /\ p[1] < p[2]
                        /\ line1[p[1]] # 0
                        /\ line1[p[2]] # 0
                        /\ \E k \in DOMAIN line2 : line2[k] = line1[p[1]]
                        /\ \E k \in DOMAIN line2 : line2[k] = line1[p[2]]
                        /\ where1(line2, line1[p[1]]) > where1(line2, line1[p[2]])}
    IN  2 * Cardinality(reversed)

\* board[:, j]
column(board, j) == [i \in DOMAIN board |-> board[i][j]]

enhanced_manhattan(board, goal) ==
    LET n == shape0(board)
        rows == [i \in 0..(n - 1) |-> count_conflicts(board[i], goal[i])]
        cols == [j \in 0..(n - 1) |-> count_conflicts(column(board, j), column(goal, j))]
    IN  manhattan_distance(board, goal) + SumTo(rows, n) + SumTo(cols, n)

Heuristics == {"manhattan_distance", "enhanced_manhattan"}

\* self.heuristic_func(board, goal)
heuristic(name, board, goal) ==
    IF name = "manhattan_distance"
    THEN manhattan_distance(board, goal)
    ELSE enhanced_manhattan(board, goal)

-----------------------------------------------------------------------------
(* init_puzzle: the randomizing walk from the goal board *)

Idle == /\ initial_state = None
        /\ goal_state = None
        /\ heuristic_func = "manhattan_distance"
        /\ states_evaluated = 0
        /\ nodes = <<>>
        /\ open_set = <<>>
        /\ g_scores = <<>>
        /\ closed_set = {}
        /\ current = 0
        /\ result = None

InitWalk ==
    /\ \E N \in Dims : state = GoalBoard(N)
    /\ r = 0
    /\ pc = "walk"
    /\ Idle

\* state = do_action(state, choice(available_actions(state)))
Randomize ==
    /\ pc = "walk"
    /\ r < MaxSteps
    /\ \E k \in 1..Len(available_actions(state)) :
          state' = do_action(state, available_actions(state)[k])
    /\ r' = r + 1
    /\ UNCHANGED <<pc>>
    /\ UNCHANGED solveVars

NextWalk == Randomize

SpecWalk == InitWalk /\ [][NextWalk]_vars

-----------------------------------------------------------------------------
(* Breadth-first search over the move graph: the boards solve is given, and *)
(* the shortest-path length its answers are compared with.                  *)

Range(s) == {s[i] : i \in DOMAIN s}

\* the boards one move away from a board of S
Moved(S) == UNION {{do_action(b, a) : a \in Range(available_actions(b))} : b \in S}

RECURSIVE Ball(_, _, _)
\* the boards at most k moves from those seen, frontier being the newest
Ball(seen, frontier, k) ==
    IF k = 0 \/ frontier = {}
    THEN seen
    ELSE LET new == Moved(frontier) \ seen
         IN  Ball(seen \cup new, new, k - 1)

RECURSIVE Meet(_, _, _, _, _)
\* seenA, seenB are the balls of radius i and j around the two ends, k = i + j,
\* and no shorter radii meet: the ends are k apart as soon as the balls meet.
Meet(seenA, frontA, seenB, frontB, k) ==
    IF frontA \cap seenB # {} \/ frontB \cap seenA # {}
    THEN k
    ELSE IF frontA = {} \/ frontB = {}
    THEN -1
    ELSE IF Cardinality(frontA) <= Cardinality(frontB)
    THEN LET new == Moved(frontA) \ seenA
         IN  Meet(seenA \cup new, new, seenB, frontB, k + 1)
    ELSE LET new == Moved(frontB) \ seenB
         IN  Meet(seenA, frontA, seenB \cup new, new, k + 1)

\* the least number of moves from board a to board b, -1 when there is none
BFSDistance(a, b) == Meet({a}, {a}, {b}, {b}, 0)

\* every arrangement of the labels 0..N*N-1 on an N x N board
AllBoards(N) ==
    {reshape(t, N) : t \in {t \in [1..(N * N) -> 0..(N * N - 1)] :
                              \A i, j \in 1..(N * N) : i # j => t[i] # t[j]}}

\* the notebook's run: [[3 7 4] [5 0 6] [8 2 1]]
NotebookStart == reshape(<<3, 7, 4, 5, 0, 6, 8, 2, 1>>, 3)

\* a board 20 moves from the goal, as init_puzzle(3) can return
Walked20 == reshape(<<4, 2, 6, 1, 7, 5, 0, 3, 8>>, 3)

\* a board 26 moves from the goal, as init_puzzle(3) can return
Walked26 == reshape(<<8, 7, 0, 6, 5, 4, 3, 2, 1>>, 3)

Starts(N) ==
    IF N = 2
    THEN AllBoards(2)
    ELSE Ball({GoalBoard(N)}, {GoalBoard(N)}, MaxWalk) \cup {NotebookStart, Walked20, Walked26}

-----------------------------------------------------------------------------
(* Node, and the heapq frontier *)

Node(st, parent, action, g_cost, h_cost) ==
    [state |-> st, parent |-> parent, action |-> action,
     g_cost |-> g_cost, h_cost |-> h_cost]

\* f_cost without the cost so far: a greedy best-first order
f_cost_greedy(node) == node.h_cost

f_cost(node) == node.g_cost + node.h_cost

\* Node.__lt__ with "<=": equal f counts as smaller
lt_or_equal(ns, a, b) == f_cost(ns[a]) <= f_cost(ns[b])

\* Node.__lt__ on two references into the arena ns
lt(ns, a, b) == f_cost(ns[a]) < f_cost(ns[b])

\* heapq keeps a 0-based list; heap[pos] is Item(heap, pos).
Item(heap, pos) == heap[pos + 1]
SetItem(heap, pos, x) == [heap EXCEPT ![pos + 1] = x]

RECURSIVE siftdown_loop(_, _, _, _, _)
siftdown_loop(ns, heap, startpos, pos, newitem) ==
    IF pos > startpos
    THEN LET parentpos == (pos - 1) \div 2
             parent == Item(heap, parentpos)
         IN  IF lt(ns, newitem, parent)
             THEN siftdown_loop(ns, SetItem(heap, pos, parent), startpos, parentpos, newitem)
             ELSE SetItem(heap, pos, newitem)
    ELSE SetItem(heap, pos, newitem)

\* heapq._siftdown
siftdown(ns, heap, startpos, pos) ==
    siftdown_loop(ns, heap, startpos, pos, Item(heap, pos))

RECURSIVE siftup_loop(_, _, _, _, _)
siftup_loop(ns, heap, startpos, pos, newitem) ==
    LET endpos == Len(heap)
        childpos == 2 * pos + 1
    IN  IF childpos < endpos
        THEN LET rightpos == childpos + 1
                 c == IF rightpos < endpos
                         /\ ~lt(ns, Item(heap, childpos), Item(heap, rightpos))
                      THEN rightpos
                      ELSE childpos
             IN  siftup_loop(ns, SetItem(heap, pos, Item(heap, c)), startpos, c, newitem)
        ELSE siftdown(ns, SetItem(heap, pos, newitem), startpos, pos)

\* heapq._siftup
siftup(ns, heap, pos) == siftup_loop(ns, heap, pos, pos, Item(heap, pos))

\* heapq.heappush(heap, item)
heappush(ns, heap, item) ==
    siftdown(ns, Append(heap, item), 0, Len(heap))

\* heapq.heappop(heap): <<the item returned, the heap left>>
heappop(ns, heap) ==
    LET lastelt == heap[Len(heap)]
        rest == SubSeq(heap, 1, Len(heap) - 1)
    IN  IF rest # <<>>
        THEN <<rest[1], siftup(ns, SetItem(rest, 0, lastelt), 0)>>
        ELSE <<lastelt, rest>>

-----------------------------------------------------------------------------
(* GemPuzzleSolver *)

\* tuple(state.flatten())
state_to_tuple(board) ==
    LET N == shape0(board)
    IN  [k \in 1..(N * N) |-> board[(k - 1) \div N][(k - 1) % N]]

RECURSIVE Reverse(_)
\* path[::-1]
Reverse(s) == IF s = <<>> THEN <<>> ELSE Reverse(Tail(s)) \o <<Head(s)>>

RECURSIVE path_to_root(_, _)
\* the list reconstruct_path builds before reversing it
path_to_root(ns, cur) ==
    IF ns[cur].parent # 0
    THEN <<<<ns[cur].state, ns[cur].action>>>> \o path_to_root(ns, ns[cur].parent)
    ELSE <<<<ns[cur].state, None>>>>

\* reconstruct_path without "path.append((current.state, None))"
path_without_start(ns, node) == Tail(Reverse(path_to_root(ns, node)))

\* reconstruct_path without the final reversal
path_not_reversed(ns, node) == path_to_root(ns, node)

reconstruct_path(ns, node) == Reverse(path_to_root(ns, node))

\* NoBetter with the comparison turned round
NoBetterInverted(gs, key, new_g_cost) ==
    key \notin DOMAIN gs \/ new_g_cost <= gs[key]

\* NoBetter with ">": a neighbour reached again at the same cost is pushed
NoBetterStrict(gs, key, new_g_cost) ==
    key \in DOMAIN gs /\ new_g_cost > gs[key]

\* g_scores[key] of the defaultdict(lambda: float('inf')): is new_g_cost >= it?
NoBetter(gs, key, new_g_cost) ==
    key \in DOMAIN gs /\ new_g_cost >= gs[key]

\* visit with "state=current.state" in the new Node
visit_keeping_state(ctx, closed, cur, action, h, goal) ==
    LET new_state == do_action(ctx.nodes[cur].state, action)
        new_state_tuple == state_to_tuple(new_state)
        new_g_cost == ctx.nodes[cur].g_cost + 1
    IN  IF new_state_tuple \in closed
        THEN ctx
        ELSE IF NoBetter(ctx.g_scores, new_state_tuple, new_g_cost)
        THEN ctx
        ELSE LET new_node == Node(ctx.nodes[cur].state, cur, Some(action), new_g_cost,
                                  heuristic(h, new_state, goal))
                 ns == Append(ctx.nodes, new_node)
             IN  [nodes |-> ns,
                  g_scores |-> (new_state_tuple :> new_g_cost) @@ ctx.g_scores,
                  open_set |-> heappush(ns, ctx.open_set, Len(ns))]

\* One pass of the body of "for action in available_actions(cur.state)".
\* ctx carries nodes, open_set and g_scores through the loop.
visit(ctx, closed, cur, action, h, goal) ==
    LET new_state == do_action(ctx.nodes[cur].state, action)
        new_state_tuple == state_to_tuple(new_state)
        new_g_cost == ctx.nodes[cur].g_cost + 1
    IN  IF new_state_tuple \in closed
        THEN ctx
        ELSE IF NoBetter(ctx.g_scores, new_state_tuple, new_g_cost)
        THEN ctx
        ELSE LET new_node == Node(new_state, cur, Some(action), new_g_cost,
                                  heuristic(h, new_state, goal))
                 ns == Append(ctx.nodes, new_node)
             IN  [nodes |-> ns,
                  g_scores |-> (new_state_tuple :> new_g_cost) @@ ctx.g_scores,
                  open_set |-> heappush(ns, ctx.open_set, Len(ns))]

RECURSIVE visit_all(_, _, _, _, _, _)
visit_all(ctx, closed, cur, actions, h, goal) ==
    IF actions = <<>>
    THEN ctx
    ELSE visit_all(visit(ctx, closed, cur, Head(actions), h, goal),
                   closed, cur, Tail(actions), h, goal)

Running == pc = "loop"
Done == pc = "done"

\* solve's return value (path, len(path) - 1, states_evaluated)
Path(res) == res[1]
Moves(res) == res[2]
Evaluated(res) == res[3]

\* GemPuzzleSolver(initial_state, goal_state, heuristic_func)
Init ==
    /\ \E N \in Dims : \E b \in Starts(N) :
          /\ initial_state = b
          /\ goal_state = GoalBoard(N)
    /\ heuristic_func \in Heuristics
    /\ states_evaluated = 0
    /\ nodes = <<>>
    /\ open_set = <<>>
    /\ g_scores = <<>>
    /\ closed_set = {}
    /\ current = 0
    /\ result = None
    /\ pc = "start"
    /\ state = None
    /\ r = 0

\* solve, up to the while loop
SolveStart ==
    /\ pc = "start"
    /\ states_evaluated' = 0
    /\ nodes' = <<Node(initial_state, 0, None, 0,
                       heuristic(heuristic_func, initial_state, goal_state))>>
    /\ open_set' = <<1>>
    /\ g_scores' = [k \in {state_to_tuple(initial_state)} |-> 0]
    /\ closed_set' = {}
    /\ pc' = "loop"
    /\ UNCHANGED <<initial_state, goal_state, heuristic_func, current, result>>
    /\ UNCHANGED walkVars

\* Discard with the counter incremented before the closed_set test
DiscardCounted ==
    /\ Running
    /\ open_set # <<>>
    /\ LET popped == heappop(nodes, open_set)
       IN  /\ state_to_tuple(nodes[popped[1]].state) \in closed_set
           /\ current' = popped[1]
           /\ open_set' = popped[2]
    /\ states_evaluated' = states_evaluated + 1
    /\ UNCHANGED <<initial_state, goal_state, heuristic_func,
                   nodes, g_scores, closed_set, pc, result>>
    /\ UNCHANGED walkVars

\* the popped node's key is in closed_set: continue
Discard ==
    /\ Running
    /\ open_set # <<>>
    /\ LET popped == heappop(nodes, open_set)
       IN  /\ state_to_tuple(nodes[popped[1]].state) \in closed_set
           /\ current' = popped[1]
           /\ open_set' = popped[2]
    /\ UNCHANGED <<initial_state, goal_state, heuristic_func, states_evaluated,
                   nodes, g_scores, closed_set, pc, result>>
    /\ UNCHANGED walkVars

\* the popped node holds the goal: return the path
ReturnPath ==
    /\ Running
    /\ open_set # <<>>
    /\ LET popped == heappop(nodes, open_set)
       IN  /\ current' = popped[1]
           /\ state_to_tuple(nodes[current'].state) \notin closed_set
           /\ nodes[current'].state = goal_state
           /\ open_set' = popped[2]
           /\ states_evaluated' = states_evaluated + 1
           /\ LET path == reconstruct_path(nodes, current')
              IN  result' = <<Some(path), Len(path) - 1, states_evaluated'>>
    /\ pc' = "done"
    /\ UNCHANGED <<initial_state, goal_state, heuristic_func, nodes, g_scores, closed_set>>
    /\ UNCHANGED walkVars

\* the popped node is closed and its neighbours are visited
Expand ==
    /\ Running
    /\ open_set # <<>>
    /\ LET popped == heappop(nodes, open_set)
           current_tuple == state_to_tuple(nodes[popped[1]].state)
       IN  /\ current' = popped[1]
           /\ current_tuple \notin closed_set
           /\ nodes[current'].state # goal_state
           /\ states_evaluated' = states_evaluated + 1
           /\ closed_set' = closed_set \cup {current_tuple}
           /\ LET ctx == visit_all([nodes |-> nodes, open_set |-> popped[2],
                                    g_scores |-> g_scores],
                                   closed_set', current',
                                   available_actions(nodes[current'].state),
                                   heuristic_func, goal_state)
              IN  /\ nodes' = ctx.nodes
                  /\ open_set' = ctx.open_set
                  /\ g_scores' = ctx.g_scores
    /\ UNCHANGED <<initial_state, goal_state, heuristic_func, pc, result>>
    /\ UNCHANGED walkVars

\* Exhaust returning None, 0, 0
ExhaustZero ==
    /\ Running
    /\ open_set = <<>>
    /\ result' = <<None, 0, 0>>
    /\ pc' = "done"
    /\ UNCHANGED <<initial_state, goal_state, heuristic_func, states_evaluated,
                   nodes, open_set, g_scores, closed_set, current>>
    /\ UNCHANGED walkVars

\* the frontier is empty: return None, 0, self.states_evaluated
Exhaust ==
    /\ Running
    /\ open_set = <<>>
    /\ result' = <<None, 0, states_evaluated>>
    /\ pc' = "done"
    /\ UNCHANGED <<initial_state, goal_state, heuristic_func, states_evaluated,
                   nodes, open_set, g_scores, closed_set, current>>
    /\ UNCHANGED walkVars

Next == SolveStart \/ Discard \/ ReturnPath \/ Expand \/ Exhaust

Spec == Init /\ [][Next]_vars

-----------------------------------------------------------------------------
(* Properties of solve *)

\* the start board can be brought to the goal board
Solvable == BFSDistance(initial_state, goal_state) >= 0

\* solve returned a path of as many moves as the shortest one has
ReturnedShortest ==
    /\ Path(result) # None
    /\ Moves(result) = Len(Path(result)[1]) - 1
    /\ Moves(result) = BFSDistance(initial_state, goal_state)

\* C1: from every start board in the goal's connected component, solve with
\* manhattan_distance returns a non-empty path whose move count is the
\* breadth-first shortest-path length from the start to the goal.
C1_ManhattanOptimal ==
    (Done /\ heuristic_func = "manhattan_distance" /\ Solvable) => ReturnedShortest

C1_Witness ==
    /\ Done
    /\ heuristic_func = "manhattan_distance"
    /\ initial_state = Walked20
    /\ Moves(result) = 20
    /\ Len(Path(result)[1]) = 21

\* C2: from every start board in the goal's connected component, solve with
\* enhanced_manhattan returns a path whose move count is the breadth-first
\* shortest-path length from the start to the goal.
C2_EnhancedOptimal ==
    (Done /\ heuristic_func = "enhanced_manhattan" /\ Solvable) => ReturnedShortest

\* C3: on every board reachable from the goal, manhattan_distance and
\* enhanced_manhattan are each at most the true shortest number of moves to
\* the goal.
C3_Admissible ==
    (pc = "start" /\ Solvable) =>
        /\ manhattan_distance(initial_state, goal_state)
              <= BFSDistance(initial_state, goal_state)
        /\ enhanced_manhattan(initial_state, goal_state)
              <= BFSDistance(initial_state, goal_state)

\* C6 as stated: states_evaluated never decreases and never exceeds the number
\* of distinct keys inserted into closed_set so far, at every point of a run,
\* the moment solve returns included.
C6_EvaluatedWithinClosed ==
    [][/\ states_evaluated' >= states_evaluated
       /\ states_evaluated' <= Cardinality(closed_set')]_vars

\* solve has returned a path
Succeeded == Done /\ Path(result) # None

\* C6 amended: states_evaluated never decreases and never exceeds the number
\* of keys in closed_set, except that when solve returns a path it is that
\* number plus one: the goal node is counted and never closed.
C6_EvaluatedBound ==
    [][/\ states_evaluated' >= states_evaluated
       /\ ~Succeeded' => states_evaluated' <= Cardinality(closed_set')
       /\ Succeeded' => states_evaluated' = Cardinality(closed_set') + 1]_vars

C6_Witness ==
    /\ Succeeded
    /\ Cardinality(closed_set) >= 100
    /\ states_evaluated = Cardinality(closed_set) + 1
    /\ Evaluated(result) = states_evaluated

\* C7: with the initial board equal to the goal board, for either heuristic
\* and board size, solve returns a path that is not None and holds exactly
\* the one entry (goal, None), with move count 0.
C7_ZeroDistance ==
    (Done /\ initial_state = goal_state) =>
        /\ Path(result) # None
        /\ Path(result) = Some(<< <<goal_state, None>> >>)
        /\ Moves(result) = 0

C7_Witness ==
    /\ Done
    /\ initial_state = goal_state
    /\ shape0(initial_state) = 3
    /\ heuristic_func = "enhanced_manhattan"
    /\ Len(Path(result)[1]) = 1

\* C8: from the notebook's 3x3 start [[3,7,4],[5,0,6],[8,2,1]] solve returns a
\* path of exactly 24 moves with manhattan_distance and with
\* enhanced_manhattan, and 24 is the shortest-path length of the instance.
C8_NotebookScenario ==
    (Done /\ initial_state = NotebookStart) =>
        /\ goal_state = reshape(<<1, 2, 3, 4, 5, 6, 7, 8, 0>>, 3)
        /\ Path(result) # None
        /\ Len(Path(result)[1]) = 25
        /\ Moves(result) = 24
        /\ BFSDistance(NotebookStart, goal_state) = 24

C8_Witness ==
    /\ Done
    /\ initial_state = NotebookStart
    /\ heuristic_func = "enhanced_manhattan"
    /\ Moves(result) = 24
    /\ Evaluated(result) = 474

\* C9: whenever solve succeeds the path has moveCount + 1 entries, entry 0 is
\* (initial state, None), the last entry's board is the goal, every later
\* entry holds an action of available_actions of the entry before it and the
\* board do_action makes of it, and moveCount is the goal node's g_cost.
C9_PathReconstruction ==
    Succeeded =>
        LET path == Path(result)[1]
        IN  /\ Len(path) = Moves(result) + 1
            /\ path[1] = <<initial_state, None>>
            /\ path[Len(path)][1] = goal_state
            /\ \A k \in 2..Len(path) :
                  \E a \in Range(available_actions(path[k - 1][1])) :
                      /\ path[k][2] = Some(a)
                      /\ path[k][1] = do_action(path[k - 1][1], a)
            /\ nodes[current].state = goal_state
            /\ Moves(result) = nodes[current].g_cost

C9_Witness ==
    /\ Succeeded
    /\ Moves(result) = 26
    /\ Len(Path(result)[1]) = 27
    /\ nodes[current].g_cost = 26

\* every board that can be reached from board b
Component(b) == Ball({b}, {b}, -1)

\* C10: from a start board that is a valid permutation outside the goal's
\* connected component, solve ends with the frontier empty and returns
\* (None, 0, states_evaluated), where states_evaluated is the number of boards
\* in the start's connected component, each expanded once.
C10_NoSolution ==
    (Done /\ ~Solvable) =>
        /\ open_set = <<>>
        /\ result = <<None, 0, Cardinality(Component(initial_state))>>
        /\ states_evaluated = Evaluated(result)
        /\ closed_set = {state_to_tuple(b) : b \in Component(initial_state)}

C10_Witness ==
    /\ Done
    /\ ~Solvable
    /\ initial_state \in AllBoards(2)
    /\ result = <<None, 0, 12>>

-----------------------------------------------------------------------------
(* Properties of the heuristics, on the boards of the randomizing walk *)

\* the goal board of the walk's dimension
WalkGoal == GoalBoard(shape0(state))

\* the boards available_actions and do_action lead to from the walk's board
Successors == {do_action(state, a) : a \in Range(available_actions(state))}

\* C4: enhanced_manhattan is consistent: for every board s and every action a
\* of available_actions(s), with s' = do_action(s, a),
\* enhanced_manhattan(s, goal) <= enhanced_manhattan(s', goal) + 1.
C4_EnhancedConsistent ==
    pc = "walk" =>
        \A s2 \in Successors :
            enhanced_manhattan(state, WalkGoal) <= enhanced_manhattan(s2, WalkGoal) + 1

\* C5: manhattan_distance is consistent: for every board s and every action a
\* of available_actions(s), with s' = do_action(s, a),
\* manhattan_distance(s, goal) <= manhattan_distance(s', goal) + 1, and one
\* move changes the value by exactly 1 in absolute value.
C5_ManhattanConsistent ==
    pc = "walk" =>
        \A s2 \in Successors :
            /\ manhattan_distance(state, WalkGoal) <= manhattan_distance(s2, WalkGoal) + 1
            /\ Abs(manhattan_distance(state, WalkGoal) - manhattan_distance(s2, WalkGoal)) = 1

C5_Witness ==
    /\ pc = "walk"
    /\ r = MaxSteps
    /\ shape0(state) = 3
    /\ \E s2 \in Successors :
          manhattan_distance(state, WalkGoal) = manhattan_distance(s2, WalkGoal) + 1
    /\ \E s2 \in Successors :
          manhattan_distance(s2, WalkGoal) = manhattan_distance(state, WalkGoal) + 1

-----------------------------------------------------------------------------
(* Termination of solve *)

\* an iteration of the while loop that pops a node
Pop == Discard \/ ReturnPath \/ Expand

\* solve runs to completion: it starts, the while loop keeps taking its next
\* iteration, and it returns when the frontier is empty. The fairness of Pop
\* is WF_vars(Pop) with ENABLED <<Pop>>_vars written out: a node can be popped
\* exactly when the loop runs on a frontier that is not empty.
SpecFair ==
    /\ Spec
    /\ WF_vars(SolveStart)
    /\ WF_vars(Exhaust)
    /\ []<>(~(Running /\ open_set # <<>>)) \/ []<><<Pop>>_vars

\* C11: from a start the goal can be reached from, solve with either
\* heuristic ends, and ends with a path; it never ends with None there.
C11_TerminatesWithPath ==
    /\ (pc = "start" /\ Solvable) ~> Succeeded
    /\ [](Done /\ Path(result) = None => ~Solvable)

\* a 3 x 3 run that ended with a path of more than MaxWalk moves
C11_Witness ==
    /\ Succeeded
    /\ shape0(initial_state) = 3
    /\ Moves(result) > MaxWalk

-----------------------------------------------------------------------------
(* Properties of available_actions, do_action and the two heuristics on the *)
(* boards of the walk                                                       *)

\* the coordinates of a board
Cells(board) == (0..(shape0(board) - 1)) \X (0..(shape0(board) - 1))

\* the cells where two boards of one size differ
Differ(a, b) == {p \in Cells(a) : At(a, p) # At(b, p)}

\* the cells of the board next to p in its row or in its column
Neighbours(board, p) ==
    {q \in Cells(board) : Abs(q[1] - p[1]) + Abs(q[2] - p[2]) = 1}

\* C12: an available action applied twice gives the board back cell for cell,
\* and applied once it changes exactly the two cells pos1 and pos2.
C12_Involution ==
    pc = "walk" =>
        \A a \in Range(available_actions(state)) :
            /\ do_action(do_action(state, a), a) = state
            /\ Differ(state, do_action(state, a)) = {a.pos1, a.pos2}
            /\ a.pos1 # a.pos2

\* a 3 x 3 board of the walk with the blank on an edge, off the corners
C12_Witness ==
    /\ pc = "walk"
    /\ r > 0
    /\ shape0(state) = 3
    /\ Len(available_actions(state)) = 3

\* C13: available_actions returns one action for each cell next to the blank
\* and no other, each from the blank (pos1) to that cell (pos2), none twice:
\* 2 in a corner, 3 on an edge off the corners, 4 inside; each is legal.
C13_AvailableActions ==
    pc = "walk" =>
        LET acts == available_actions(state)
            N == shape0(state)
            blank == where(state, 0)
            onRowEdge == blank[1] \in {0, N - 1}
            onColEdge == blank[2] \in {0, N - 1}
        IN  /\ \A k \in DOMAIN acts : acts[k].pos1 = blank
            /\ {acts[k].pos2 : k \in DOMAIN acts} = Neighbours(state, blank)
            /\ \A k, m \in DOMAIN acts : k # m => acts[k] # acts[m]
            /\ Len(acts) = IF onRowEdge /\ onColEdge THEN 2
                           ELSE IF onRowEdge \/ onColEdge THEN 3 ELSE 4
            /\ \A k \in DOMAIN acts :
                  /\ At(state, acts[k].pos1) = 0
                  /\ acts[k].pos2 \in Cells(state)
                  /\ At(state, acts[k].pos2) # 0

\* a 3 x 3 board of the walk with the blank in the middle: four actions
C13_Witness ==
    /\ pc = "walk"
    /\ r > 0
    /\ shape0(state) = 3
    /\ where(state, 0) = <<1, 1>>
    /\ Len(available_actions(state)) = 4

\* C14: enhanced_manhattan is never below manhattan_distance, the two differ
\* by an even number, and both are 0 on the goal.
C14_Dominance ==
    pc = "walk" =>
        LET md == manhattan_distance(state, WalkGoal)
            em == enhanced_manhattan(state, WalkGoal)
        IN  /\ em >= md
            /\ (em - md) % 2 = 0
            /\ state = WalkGoal => md = 0 /\ em = 0

\* a 3 x 3 board of the walk where enhanced_manhattan is the larger
C14_Witness ==
    /\ pc = "walk"
    /\ shape0(state) = 3
    /\ enhanced_manhattan(state, WalkGoal) > manhattan_distance(state, WalkGoal)

-----------------------------------------------------------------------------
(* Properties of the search *)

\* "Number of states evaluated" of the notebook's two runs
NotebookEvaluatedEnhanced == 474
NotebookEvaluatedManhattan == 1063

\* C15: from the notebook's start solve evaluates 474 states with
\* enhanced_manhattan and 1063 with manhattan_distance, the frontier being
\* ordered by Node.__lt__ on f alone: fewer with enhanced_manhattan.
C15_FewerEvaluated ==
    (Done /\ initial_state = NotebookStart /\ goal_state = GoalBoard(3)) =>
        /\ heuristic_func = "enhanced_manhattan"
              => Evaluated(result) = NotebookEvaluatedEnhanced
        /\ heuristic_func = "manhattan_distance"
              => Evaluated(result) = NotebookEvaluatedManhattan
        /\ NotebookEvaluatedEnhanced < NotebookEvaluatedManhattan

\* the notebook's run with manhattan_distance has returned
C15_Witness ==
    /\ Done
    /\ initial_state = NotebookStart
    /\ heuristic_func = "manhattan_distance"
    /\ Evaluated(result) > NotebookEvaluatedEnhanced

\* C16: in whatever order solve pops frontier entries of equal least f, the
\* move count it returns is the shortest-path length from the start to the
\* goal. The order heapq gives them is one such order.
C16_TieBreakIndependent ==
    Succeeded => Moves(result) = BFSDistance(initial_state, goal_state)

\* C17: a popped node whose key is in closed_set is dropped: the counter, the
\* nodes, closed_set and g_scores stay as they are and solve does not return.
\* Any other popped node is counted once and its key was never expanded
\* before. So states_evaluated is the number of keys that passed the
\* closed_set test: those of closed_set, and the goal's when it is returned.
C17_LazyDeletion ==
    [][(Running /\ open_set # <<>>) =>
          LET key == state_to_tuple(nodes[current'].state)
          IN  /\ IF key \in closed_set
                 THEN /\ states_evaluated' = states_evaluated
                      /\ nodes' = nodes
                      /\ closed_set' = closed_set
                      /\ g_scores' = g_scores
                      /\ Len(open_set') = Len(open_set) - 1
                      /\ pc' = pc
                      /\ result' = result
                 ELSE /\ states_evaluated' = states_evaluated + 1
                      /\ \/ closed_set' = closed_set \cup {key}
                         \/ Succeeded' /\ closed_set' = closed_set
              /\ states_evaluated' =
                    Cardinality(closed_set') + (IF Succeeded' THEN 1 ELSE 0)]_vars

\* a stale node has just been popped and dropped: its state was expanded
\* before, from a node with a smaller g_cost
C17_Witness ==
    /\ Running
    /\ current # 0
    /\ state_to_tuple(nodes[current].state) \in closed_set
    /\ nodes[current].g_cost > g_scores[state_to_tuple(nodes[current].state)]

\* the key of the state node n of the arena holds
KeyOf(ns, n) == state_to_tuple(ns[n].state)

\* g_scores holds, for each state a node was created for, the least g_cost of
\* those nodes, and no frontier node lies below the entry of its state
GScoresLeast ==
    /\ DOMAIN g_scores = {KeyOf(nodes, n) : n \in DOMAIN nodes}
    /\ \A n \in DOMAIN nodes : g_scores[KeyOf(nodes, n)] <= nodes[n].g_cost
    /\ {<<k, g_scores[k]>> : k \in DOMAIN g_scores}
          \subseteq {<<KeyOf(nodes, n), nodes[n].g_cost>> : n \in DOMAIN nodes}
    /\ \A i \in DOMAIN open_set :
          nodes[open_set[i]].g_cost >= g_scores[KeyOf(nodes, open_set[i])]

\* the nodes a step creates
Created == (Len(nodes) + 1)..Len(nodes')

\* C18: at every step of solve nodes are only added, and each added node is
\* pushed, with a g_cost strictly below the entry its state had (or for a
\* state with none); that g_cost becomes the entry and is the least g_cost of
\* all nodes created for the state so far. Every other entry stays as it is,
\* so none is raised. No frontier node lies below the entry of its state, and
\* when solve returns each entry is the least g_cost of its state's nodes.
C18_GScores ==
    [][/\ SubSeq(nodes', 1, Len(nodes)) = nodes
       /\ \A n \in Created :
             /\ n \in Range(open_set')
             /\ \/ KeyOf(nodes', n) \notin DOMAIN g_scores
                \/ nodes'[n].g_cost < g_scores[KeyOf(nodes', n)]
             /\ g_scores'[KeyOf(nodes', n)] = nodes'[n].g_cost
             /\ \A m \in DOMAIN nodes' :
                   nodes'[m].state = nodes'[n].state
                      => nodes'[m].g_cost >= nodes'[n].g_cost
       /\ g_scores' = [k \in {KeyOf(nodes', n) : n \in Created} |->
                          nodes'[CHOOSE n \in Created : KeyOf(nodes', n) = k].g_cost]
                      @@ g_scores
       /\ \A i \in DOMAIN open_set' :
             nodes'[open_set'[i]].g_cost >= g_scores'[KeyOf(nodes', open_set'[i])]
       /\ Done' => GScoresLeast']_vars

\* two nodes were created for one state, the later with the smaller g_cost,
\* which is now the state's entry
C18_Witness ==
    /\ Running
    /\ \E n, m \in DOMAIN nodes :
          /\ n < m
          /\ nodes[n].state = nodes[m].state
          /\ nodes[m].g_cost < nodes[n].g_cost
          /\ g_scores[KeyOf(nodes, m)] = nodes[m].g_cost

\* board holds each of 0..N*N-1 once on an N x N grid: one blank
ValidBoard(board) ==
    LET N == shape0(board)
    IN  /\ DOMAIN board = 0..(N - 1)
        /\ \A i \in DOMAIN board : DOMAIN board[i] = 0..(N - 1)
        /\ {At(board, p) : p \in Cells(board)} = 0..(N * N - 1)

\* key is the tuple of such a board
ValidKey(key, N) == Len(key) = N * N /\ Range(key) = 0..(N * N - 1)

\* node n was made from its parent by an available action, which moved the
\* blank to a cell next to where it was
MovedFromParent(ns, n) ==
    LET from == ns[ns[n].parent].state
        action == ns[n].action[1]
    IN  /\ action \in Range(available_actions(from))
        /\ ns[n].state = do_action(from, action)
        /\ where(ns[n].state, 0) \in Neighbours(from, where(from, 0))
        /\ where(ns[n].state, 0) = action.pos2

\* every state of a node, every key of closed_set and every state of a
\* returned path is such a board, and every node but the first was moved
\* from its parent
AllValid ==
    /\ \A n \in DOMAIN nodes :
          /\ ValidBoard(nodes[n].state)
          /\ nodes[n].parent # 0 => MovedFromParent(nodes, n)
    /\ \A k \in closed_set : ValidKey(k, shape0(initial_state))
    /\ Succeeded =>
          \A i \in DOMAIN Path(result)[1] : ValidBoard(Path(result)[1][i][1])

\* C19: the start being a permutation of 0..N*N-1, every node solve creates
\* holds a permutation of 0..N*N-1 with one blank, made by do_action from its
\* parent's state and an available action, with the blank one cell up, down,
\* left or right of where it was; every key closed is the key of such a board;
\* nodes and keys are never changed or removed and the frontier holds such
\* nodes only; so when solve returns, the states of all nodes that were ever
\* on the frontier, all keys of closed_set and the states of the returned
\* path are such boards.
C19_StateValidity ==
    [][ValidBoard(initial_state) =>
          /\ \A n \in Created :
                /\ ValidBoard(nodes'[n].state)
                /\ nodes'[n].parent # 0 => MovedFromParent(nodes', n)
          /\ \A k \in closed_set' \ closed_set : ValidKey(k, shape0(initial_state))
          /\ SubSeq(nodes', 1, Len(nodes)) = nodes
          /\ closed_set \subseteq closed_set'
          /\ Range(open_set') \subseteq DOMAIN nodes'
          /\ Done' => AllValid']_vars

\* a 3 x 3 run has returned a path, with nodes left on the frontier and keys
\* in closed_set
C19_Witness ==
    /\ Succeeded
    /\ shape0(initial_state) = 3
    /\ open_set # <<>>
    /\ Cardinality(closed_set) > MaxWalk

\* this step pops a node that passes the closed_set test
Evaluates == Running /\ open_set # <<>> /\ states_evaluated' = states_evaluated + 1

\* C20: with manhattan_distance, the g_cost of every popped node that passes
\* the closed_set test is the shortest-path length from the start to its
\* state; so each neighbour of it that is skipped as closed was closed at a
\* g_cost no larger than the one it would get from this node.
C20_ExpandedAtShortest ==
    [][(heuristic_func = "manhattan_distance" /\ Evaluates) =>
          LET node == nodes[current']
          IN  /\ node.g_cost = BFSDistance(initial_state, node.state)
              /\ \A a \in Range(available_actions(node.state)) :
                    LET new_state == do_action(node.state, a)
                    IN  state_to_tuple(new_state) \in closed_set
                           => g_scores[state_to_tuple(new_state)] <= node.g_cost + 1]_vars

\* a node more than MaxWalk moves from the start has been expanded in a run
\* with manhattan_distance
C20_Witness ==
    /\ Running
    /\ heuristic_func = "manhattan_distance"
    /\ current # 0
    /\ nodes[current].g_cost > MaxWalk
    /\ state_to_tuple(nodes[current].state) \in closed_set
    /\ nodes[current].g_cost = g_scores[state_to_tuple(nodes[current].state)]

\* C21: with manhattan_distance, the f_cost of the nodes solve pops never
\* goes down from one loop iteration to the next (the expanded nodes are among
\* the popped ones, dropped stale nodes included here), and every node created
\* while a popped node is expanded is its child and has at least its f_cost.
C21_MonotoneF ==
    [][(heuristic_func = "manhattan_distance" /\ Running /\ open_set # <<>>) =>
          /\ current # 0 => f_cost(nodes[current']) >= f_cost(nodes[current])
          /\ \A n \in Created :
                /\ nodes'[n].parent = current'
                /\ f_cost(nodes'[n]) >= f_cost(nodes[current'])]_vars

\* a run with manhattan_distance has expanded a node of larger f_cost than
\* the start's and pushed children of it
C21_Witness ==
    /\ Running
    /\ heuristic_func = "manhattan_distance"
    /\ current # 0
    /\ f_cost(nodes[current]) > f_cost(nodes[1])
    /\ \E n \in DOMAIN nodes : nodes[n].parent = current

====
